---------------------------- MODULE Spec2Model ----------------------------
(***************************************************************************)
(* A model of the two scripts of the repository.                           *)
(* The AI content analyzer (src/ai-content-analyzer):                      *)
(*   article_extractor.extract_article, text_analyzer.calculate_cost,      *)
(*   text_analyzer.analyze_article, main.sanitize_filename,                *)
(*   main.save_results_to_file and the interactive loop of main.main.      *)
(* The morning update (src/morning_update):                                *)
(*   news_client.get_news_headlines, meteo_client.get_weather_forecast,    *)
(*   openai_client.generate_update, openai_client.text_to_speech and       *)
(*   main.py run as a script.                                              *)
(* The third-party collaborators (newspaper's Article, requests, the       *)
(* OpenAI client, json.loads, the clock, the file system) are the          *)
(* environment: every outcome they can produce is an input the actions     *)
(* draw with \E.                                                           *)
(***************************************************************************)
EXTENDS Integers, Sequences, FiniteSets, TLC

(***************************************************************************)
(* Python values.  A value is a record tagged with its Python type, so     *)
(* that truthiness, isinstance and attribute errors are computed from the  *)
(* value as the interpreter computes them.  A str is its sequence of       *)
(* characters (one-character TLA+ strings).                                *)
(***************************************************************************)
PyNone == [t |-> "NoneType"]

PyStr(chars) == [t |-> "str", s |-> chars]

PyInt(n) == [t |-> "int", n |-> n]

PyBool(b) == [t |-> "bool", b |-> b]

PyList(items) == [t |-> "list", l |-> items]

PyDict(d) == [t |-> "dict", d |-> d]

\* bool(v): None, "", 0, False, [] and {} are falsy.
Truthy(v) ==
    CASE v.t = "NoneType" -> FALSE
      [] v.t = "str"      -> v.s # <<>>
      [] v.t = "int"      -> v.n # 0
      [] v.t = "bool"     -> v.b
      [] v.t = "list"     -> v.l # <<>>
      [] v.t = "dict"     -> DOMAIN v.d # {}
      [] OTHER            -> TRUE

\* isinstance(v, str)
IsStr(v) == v.t = "str"

\* v is None
IsNone(v) == v.t = "NoneType"

\* `a or b`
PyOr(a, b) == IF Truthy(a) THEN a ELSE b

(***************************************************************************)
(* str methods, on character sequences.                                    *)
(***************************************************************************)
Whitespace == {" ", "\t", "\n"}

RECURSIVE LStrip(_)
LStrip(s) ==
    IF s # <<>> /\ Head(s) \in Whitespace THEN LStrip(Tail(s)) ELSE s

RECURSIVE RStrip(_)
RStrip(s) ==
    IF s # <<>> /\ s[Len(s)] \in Whitespace
    THEN RStrip(SubSeq(s, 1, Len(s) - 1))
    ELSE s

\* str.strip()
Strip(s) == RStrip(LStrip(s))

\* str.startswith(prefix)
StartsWith(s, prefix) ==
    /\ Len(s) >= Len(prefix)
    /\ SubSeq(s, 1, Len(prefix)) = prefix

UpperCase ==
    <<"A", "B", "C", "D", "E", "F", "G", "H", "I", "J", "K", "L", "M",
      "N", "O", "P", "Q", "R", "S", "T", "U", "V", "W", "X", "Y", "Z">>

LowerCase ==
    <<"a", "b", "c", "d", "e", "f", "g", "h", "i", "j", "k", "l", "m",
      "n", "o", "p", "q", "r", "s", "t", "u", "v", "w", "x", "y", "z">>

LowerChar(c) ==
    IF \E i \in 1..Len(UpperCase) : UpperCase[i] = c
    THEN LowerCase[CHOOSE i \in 1..Len(UpperCase) : UpperCase[i] = c]
    ELSE c

Lower_AsTyped(s) == s

\* str.lower()
Lower(s) == [i \in 1..Len(s) |-> LowerChar(s[i])]

(***************************************************************************)
(* Natural numbers of any size, as little-endian sequences of limbs: TLC's *)
(* integers are 32 bits wide and a float's 53-bit significand is not.      *)
(***************************************************************************)
LimbBits == 10

Base == 2 ^ LimbBits

RECURSIVE BigNorm(_)
BigNorm(a) ==
    IF a # <<>> /\ a[Len(a)] = 0 THEN BigNorm(SubSeq(a, 1, Len(a) - 1)) ELSE a

RECURSIVE BigFromNat(_)
BigFromNat(n) ==
    IF n = 0 THEN <<>> ELSE <<n % Base>> \o BigFromNat(n \div Base)

RECURSIVE BigAddC(_, _, _)
BigAddC(a, b, carry) ==
    IF a = <<>> /\ b = <<>>
    THEN IF carry = 0 THEN <<>> ELSE <<carry>>
    ELSE LET x == IF a = <<>> THEN 0 ELSE Head(a)
             y == IF b = <<>> THEN 0 ELSE Head(b)
             t == x + y + carry
         IN  <<t % Base>> \o
             BigAddC(IF a = <<>> THEN a ELSE Tail(a),
                     IF b = <<>> THEN b ELSE Tail(b), t \div Base)

BigAdd(a, b) == BigAddC(a, b, 0)

RECURSIVE BigSubB(_, _, _)
BigSubB(a, b, borrow) ==
    IF a = <<>>
    THEN <<>>
    ELSE LET y == IF b = <<>> THEN 0 ELSE Head(b)
             t == Head(a) - y - borrow
         IN  <<IF t < 0 THEN t + Base ELSE t>> \o
             BigSubB(Tail(a), IF b = <<>> THEN b ELSE Tail(b),
                     IF t < 0 THEN 1 ELSE 0)

\* a - b, for a >= b
BigSub(a, b) == BigNorm(BigSubB(a, b, 0))

RECURSIVE BigLessFrom(_, _, _)
BigLessFrom(a, b, i) ==
    IF i = 0 THEN FALSE
    ELSE IF a[i] # b[i] THEN a[i] < b[i]
    ELSE BigLessFrom(a, b, i - 1)

\* a < b, for normalised a and b
BigLess(a, b) ==
    IF Len(a) # Len(b) THEN Len(a) < Len(b) ELSE BigLessFrom(a, b, Len(a))

RECURSIVE BigMulSmallC(_, _, _)
BigMulSmallC(a, d, carry) ==
    IF a = <<>>
    THEN BigFromNat(carry)
    ELSE LET t == Head(a) * d + carry
         IN  <<t % Base>> \o BigMulSmallC(Tail(a), d, t \div Base)

\* a * d, for 0 <= d < 2^20
BigMulSmall(a, d) == BigNorm(BigMulSmallC(a, d, 0))

RECURSIVE BigMul(_, _)
BigMul(a, b) ==
    IF b = <<>>
    THEN <<>>
    ELSE LET rest == BigMul(a, Tail(b))
         IN  BigAdd(BigMulSmall(a, Head(b)),
                    IF rest = <<>> THEN <<>> ELSE <<0>> \o rest)

RECURSIVE BigDivSmallFrom(_, _, _, _)
BigDivSmallFrom(a, d, i, rem) ==
    IF i = 0
    THEN [q |-> <<>>, r |-> rem]
    ELSE LET t    == rem * Base + a[i]
             rest == BigDivSmallFrom(a, d, i - 1, t % d)
         IN  [q |-> rest.q \o <<t \div d>>, r |-> rest.r]

\* quotient and remainder of a by d, for 0 < d < 2^21
BigDivSmall(a, d) ==
    LET res == BigDivSmallFrom(a, d, Len(a), 0)
    IN  [q |-> BigNorm(res.q), r |-> res.r]

RECURSIVE NatBits(_)
NatBits(n) == IF n = 0 THEN 0 ELSE 1 + NatBits(n \div 2)

\* the number of significant bits of a
BigBits(a) ==
    IF a = <<>> THEN 0 ELSE (Len(a) - 1) * LimbBits + NatBits(a[Len(a)])

\* a * 2^k
BigShl(a, k) ==
    IF a = <<>>
    THEN <<>>
    ELSE [i \in 1..(k \div LimbBits) |-> 0] \o
         BigMulSmall(a, 2 ^ (k % LimbBits))

\* floor(a / 2^k), and whether a nonzero bit was shifted out
BigShr(a, k) ==
    LET n    == k \div LimbBits
        kept == IF n >= Len(a) THEN <<>> ELSE SubSeq(a, n + 1, Len(a))
        lost == \E i \in 1..n : i <= Len(a) /\ a[i] # 0
        res  == BigDivSmall(kept, 2 ^ (k % LimbBits))
    IN  [q |-> res.q, sticky |-> lost \/ res.r # 0]

BigIsOdd(a) == a # <<>> /\ a[1] % 2 = 1

(***************************************************************************)
(* Python floats: IEEE-754 binary64, round to nearest, ties to even.  A    *)
(* nonzero float is significand * 2^exponent with the significand in       *)
(* [2^52, 2^53).  The costs computed here are far from the subnormal and   *)
(* overflow ranges, which are not modelled.                                *)
(***************************************************************************)
Precision == 53

FloatZero == [m |-> <<>>, e |-> 0]

RECURSIVE SumBits(_)
SumBits(ds) == IF ds = <<>> THEN 0 ELSE NatBits(Head(ds)) + SumBits(Tail(ds))

RECURSIVE DivAll(_, _)
\* floor of a divided by the product of ds, and whether the division is inexact
DivAll(a, ds) ==
    IF ds = <<>>
    THEN [q |-> a, sticky |-> FALSE]
    ELSE LET first == BigDivSmall(a, Head(ds))
             rest  == DivAll(first.q, Tail(ds))
         IN  [q |-> rest.q, sticky |-> first.r # 0 \/ rest.sticky]

\* m * 2^e with a significand of at most Precision + 1 bits, renormalised
Normalised(m, e) ==
    IF BigBits(m) > Precision
    THEN [m |-> BigShr(m, 1).q, e |-> e + 1]
    ELSE [m |-> m, e |-> e]

\* round to nearest, ties to even: m0 is the significand, guard the bit
\* after it, sticky whether any bit after that is set
RoundHalfEven(m0, guard, sticky, e) ==
    Normalised(IF guard /\ (sticky \/ BigIsOdd(m0))
               THEN BigAdd(m0, <<1>>)
               ELSE m0, e)

\* top holds Precision + 1 bits: the significand and the guard bit
RoundTop(top, sticky, e) ==
    RoundHalfEven(BigShr(top.q, 1).q, BigIsOdd(top.q),
                  sticky \/ top.sticky, e + 1)

\* quot * 2^e, with s more bits than Precision + 1
RoundShifted(quot, s, e) ==
    RoundTop(BigShr(quot.q, s), quot.sticky, e + s)

RoundQuotient(quot, e) ==
    RoundShifted(quot, BigBits(quot.q) - (Precision + 1), e)

\* n is scaled by 2^k so that the quotient has more than Precision + 1 bits
RoundScaled(n, ds, e0, k) ==
    RoundQuotient(DivAll(BigShl(n, k), ds), e0 - k)

Max0(x) == IF x > 0 THEN x ELSE 0

\* the float nearest to (n / product of ds) * 2^e0
RoundToFloat(n, ds, e0) ==
    IF n = <<>>
    THEN FloatZero
    ELSE RoundScaled(n, ds, e0,
                     Max0(Precision + 2 + SumBits(ds) - BigBits(n)))

\* int / int (true division): the correctly rounded quotient
IntTrueDiv(a, b) == RoundToFloat(BigFromNat(a), <<b>>, 0)

RECURSIVE Tens(_)
Tens(k) == IF k = 0 THEN <<>> ELSE <<10>> \o Tens(k - 1)

\* the float a decimal literal denotes: digits / 10^places, e.g. 0.150 is
\* FloatLiteral(150, 3)
FloatLiteral(digits, places) ==
    RoundToFloat(BigFromNat(digits), Tens(places), 0)

\* float * float
FloatMul(x, y) ==
    IF x.m = <<>> \/ y.m = <<>>
    THEN FloatZero
    ELSE RoundToFloat(BigMul(x.m, y.m), <<>>, x.e + y.e)

\* float + float, for non-negative floats
FloatAdd(x, y) ==
    IF x.m = <<>> THEN y
    ELSE IF y.m = <<>> THEN x
    ELSE LET e == IF x.e < y.e THEN x.e ELSE y.e
         IN  RoundToFloat(BigAdd(BigShl(x.m, x.e - e), BigShl(y.m, y.e - e)),
                          <<>>, e)

(***************************************************************************)
(* Bounds of the model.                                                    *)
(***************************************************************************)
\* whitespace characters put before and after an article's text
MaxPad == 1

\* token counts 0..MaxTokens are tried beside the spec's examples
MaxTokens == 6

\* URLs entered in one interactive session
MaxUrls == 2

(***************************************************************************)
(* Exceptions, and the outcome of a call: a returned value or a raised     *)
(* exception, with the calls made to external services on the way.         *)
(***************************************************************************)
Exc(cls, msg) == [cls |-> cls, msg |-> msg]

\* str(e)
ExcStr(e) == e.msg

Returns(value, calls) ==
    [returned |-> TRUE, value |-> value, calls |-> calls]

Raises(e, calls) ==
    [returned |-> FALSE, exc |-> e, calls |-> calls]

\* dict.get(key, default)
DictGet(d, key, default) == IF key \in DOMAIN d THEN d[key] ELSE default

(***************************************************************************)
(* article_extractor.extract_article                                       *)
(***************************************************************************)
MinTextLen == 50

HttpPrefix == <<"h", "t", "t", "p", ":", "/", "/">>

HttpsPrefix == <<"h", "t", "t", "p", "s", ":", "/", "/">>

\* the exception classes the download's own handler catches
TimeoutClasses == {"RequestsTimeout", "SocketTimeout", "TimeoutError"}

\* `not url or not isinstance(url, str)`
UrlIsEmptyOrNotStr(url) == ~Truthy(url) \/ ~IsStr(url)

UrlHasHttpScheme_Any(url) == TRUE

\* url.startswith(('http://', 'https://'))
UrlHasHttpScheme(url) ==
    StartsWith(url.s, HttpPrefix) \/ StartsWith(url.s, HttpsPrefix)

TextTooShort_NoStrip(text) == ~Truthy(text) \/ Len(text.s) < MinTextLen

\* `not result['text'] or len(result['text'].strip()) < 50`
TextTooShort(text) == ~Truthy(text) \/ Len(Strip(text.s)) < MinTextLen

IsTimeout_RequestsOnly(e) == e.cls = "RequestsTimeout"

\* except (RequestsTimeout, SocketTimeout, TimeoutError)
IsTimeout(e) == e.cls \in TimeoutClasses

TimeoutMessage(url) ==
    <<"Request", "timed", "out", "after", "15", "seconds", "while",
      "downloading", "from">> \o url.s

TooShortMessage ==
    <<"Extracted", "text", "is", "too", "short", "or", "empty.", "Article",
      "may", "not", "have", "been", "parsed", "correctly.">>

ExtractFailure_Bare(result, e) ==
    [result EXCEPT !.error = PyStr(ExcStr(e)), !.success = FALSE]

\* the handler of `except Exception as e`
ExtractFailure(result, e) ==
    [result EXCEPT
        !.error = PyStr(<<"Failed", "to", "extract", "article", "from">>
                        \o result.url.s \o <<":">> \o ExcStr(e)),
        !.success = FALSE]

\* the assignments that follow article.parse()
ParsedResult(result, parsed) ==
    LET filled ==
            [result EXCEPT
                !.title = parsed.title,
                !.text = parsed.text,
                !.authors = IF Truthy(parsed.authors)
                            THEN parsed.authors ELSE PyNone,
                !.publish_date = IF Truthy(parsed.publish_date)
                                 THEN PyStr(parsed.publish_date.isoformat)
                                 ELSE PyNone,
                !.success = TRUE]
    IN  IF TextTooShort(filled.text)
        THEN [filled EXCEPT !.success = FALSE,
                            !.error = PyStr(TooShortMessage)]
        ELSE filled

\* env.download and env.parse are what Article.download and Article.parse do
\* in this call: [ok |-> TRUE, ...] or [ok |-> FALSE, exc |-> e]
extract_article(url, env) ==
    IF UrlIsEmptyOrNotStr(url)
    THEN Raises(Exc("ValueError",
                    <<"URL", "must", "be", "a", "non-empty", "string">>), <<>>)
    ELSE IF ~UrlHasHttpScheme(url)
    THEN Raises(Exc("ValueError",
                    <<"Invalid", "URL", "format:">> \o url.s \o
                    <<".", "Must", "start", "with", "http://", "or",
                      "https://">>), <<>>)
    ELSE LET result == [title |-> PyNone, text |-> PyNone,
                        authors |-> PyNone, publish_date |-> PyNone,
                        url |-> url, success |-> FALSE, error |-> PyNone]
         IN  IF ~env.download.ok
             THEN IF IsTimeout(env.download.exc)
                  THEN Returns([result EXCEPT
                                   !.error = PyStr(TimeoutMessage(url)),
                                   !.success = FALSE],
                               <<"download">>)
                  ELSE Returns(ExtractFailure(result, env.download.exc),
                               <<"download">>)
             ELSE IF ~env.parse.ok
             THEN Returns(ExtractFailure(result, env.parse.exc),
                          <<"download", "parse">>)
             ELSE Returns(ParsedResult(result, env.parse.article),
                          <<"download", "parse">>)

(***************************************************************************)
(* What the environment of extract_article can do.                         *)
(***************************************************************************)
Chars(c, n) == [i \in 1..n |-> c]

\* article texts: a body of non-blank characters between blanks
ArticleTexts ==
    { PyStr(Chars(" ", lead) \o Chars("x", body) \o Chars("\n", trail)) :
        lead \in 0..MaxPad, trail \in 0..MaxPad,
        body \in {0, 1, MinTextLen - 1, MinTextLen, MinTextLen + 1} }
    \cup {PyStr(Chars(" ", MinTextLen + 1)), PyNone}

ArticleTitles == {PyStr(<<>>), PyStr(<<"T", "i", "t", "l", "e">>)}

ArticleAuthors == {PyList(<<>>), PyList(<<PyStr(<<"A", "n", "n">>)>>)}

ArticleDates ==
    {PyNone, [t |-> "datetime", isoformat |-> <<"2024-01-15T10:30:00">>]}

ParsedArticles ==
    [title : ArticleTitles, text : ArticleTexts,
     authors : ArticleAuthors, publish_date : ArticleDates]

DownloadExceptions ==
    {Exc(cls, msg) : cls \in TimeoutClasses,
                     msg \in {<<"timed", "out">>, <<>>}}
    \cup {Exc("ConnectionError", <<"Connection", "refused">>),
          Exc("Exception", <<>>)}

ParseExceptions ==
    {Exc("ArticleException", <<"You", "must", "download()", "an", "article",
                               "first!">>),
     Exc("Exception", <<>>)}

Ok == [ok |-> TRUE]

Failed(e) == [ok |-> FALSE, exc |-> e]

ExtractEnvs ==
    {[download |-> Failed(e)] : e \in DownloadExceptions}
    \cup {[download |-> Ok, parse |-> Failed(e)] : e \in ParseExceptions}
    \cup {[download |-> Ok, parse |-> [ok |-> TRUE, article |-> a]] :
            a \in ParsedArticles}

\* the values extract_article may be handed as url
UrlValues ==
    {PyNone, PyInt(0), PyInt(5), PyList(<<PyStr(HttpPrefix)>>),
     PyStr(<<>>),
     PyStr(<<"a">>),
     PyStr(<<"f", "t", "p", ":", "/", "/", "a">>),
     PyStr(<<"H", "T", "T", "P", ":", "/", "/", "a">>),
     PyStr(<<" ">> \o HttpPrefix \o <<"a">>),
     PyStr(<<"h", "t", "t", "p">>),
     PyStr(HttpPrefix),
     PyStr(HttpPrefix \o <<"a">>),
     PyStr(HttpsPrefix \o <<"a">>)}

(***************************************************************************)
(* text_analyzer.calculate_cost                                            *)
(***************************************************************************)
TokensPerMillion == 1000000

\* input_price_per_million = 0.150
input_price_per_million == FloatLiteral(150, 3)

\* output_price_per_million = 0.600
output_price_per_million == FloatLiteral(600, 3)

calculate_cost_Swapped(prompt_tokens, completion_tokens) ==
    FloatAdd(FloatMul(IntTrueDiv(prompt_tokens, TokensPerMillion),
                      output_price_per_million),
             FloatMul(IntTrueDiv(completion_tokens, TokensPerMillion),
                      input_price_per_million))

calculate_cost(prompt_tokens, completion_tokens) ==
    LET input_cost  == FloatMul(IntTrueDiv(prompt_tokens, TokensPerMillion),
                                input_price_per_million)
        output_cost == FloatMul(IntTrueDiv(completion_tokens,
                                           TokensPerMillion),
                                output_price_per_million)
    IN  FloatAdd(input_cost, output_cost)

(***************************************************************************)
(* text_analyzer.analyze_article                                           *)
(***************************************************************************)
PyFloat(x) == [t |-> "float", f |-> x]

DefaultSentiment ==
    PyDict([label |-> PyStr(<<>>), confidence |-> PyFloat(FloatZero)])

\* the base result structure
BaseResult ==
    [summary |-> PyStr(<<>>),
     sentiment |-> DefaultSentiment,
     key_points |-> PyList(<<>>),
     reading_time_minutes |-> PyInt(0),
     tokens_used |-> [prompt |-> 0, completion |-> 0, total |-> 0],
     cost_usd |-> FloatZero,
     success |-> FALSE,
     error |-> PyNone]

EmptyTextMessage ==
    <<"Article", "text", "is", "empty.", "Cannot", "analyze.">>

EmptyContentMessage == <<"OpenAI", "response", "content", "is", "empty.">>

TextIsBlank_NoStrip(text) == ~Truthy(text)

\* `not text.strip()`
TextIsBlank(text) == ~Truthy(PyStr(Strip(text.s)))

TokensUsed_PromptOnly(usage) ==
    LET prompt_tokens == IF ~IsNone(usage) THEN usage.prompt_tokens ELSE 0
        completion_tokens ==
            IF ~IsNone(usage) THEN usage.completion_tokens ELSE 0
    IN  [prompt |-> prompt_tokens, completion |-> completion_tokens,
         total |-> prompt_tokens]

\* the token usage read from response.usage
TokensUsed(usage) ==
    LET prompt_tokens == IF ~IsNone(usage) THEN usage.prompt_tokens ELSE 0
        completion_tokens ==
            IF ~IsNone(usage) THEN usage.completion_tokens ELSE 0
    IN  [prompt |-> prompt_tokens, completion |-> completion_tokens,
         total |-> prompt_tokens + completion_tokens]

WithUsage_NoCost(result, usage) ==
    [result EXCEPT !.tokens_used = TokensUsed(usage)]

\* result["tokens_used"] = ...; result["cost_usd"] = calculate_cost(...)
WithUsage(result, usage) ==
    [result EXCEPT
        !.tokens_used = TokensUsed(usage),
        !.cost_usd = calculate_cost(TokensUsed(usage).prompt,
                                    TokensUsed(usage).completion)]

JsonFailure_Reset(result, json_error) ==
    [BaseResult EXCEPT
        !.error = PyStr(<<"Failed", "to", "parse", "JSON", "from", "model",
                          "response:">> \o ExcStr(json_error))]

\* the handler of `except json.JSONDecodeError as json_error`
JsonFailure(result, json_error) ==
    [result EXCEPT
        !.error = PyStr(<<"Failed", "to", "parse", "JSON", "from", "model",
                          "response:">> \o ExcStr(json_error))]

AnalysisFailure_Bare(result, e) ==
    [result EXCEPT !.error = PyStr(ExcStr(e)), !.success = FALSE]

\* the handler of the outer `except Exception as e`
AnalysisFailure(result, e) ==
    [result EXCEPT
        !.error = PyStr(<<"Error", "during", "article", "analysis:">>
                        \o ExcStr(e)),
        !.success = FALSE]

CopyParsed_NoDefaults(result, parsed) ==
    [result EXCEPT
        !.summary = DictGet(parsed.d, "summary", PyNone),
        !.sentiment = DictGet(parsed.d, "sentiment", PyNone),
        !.key_points = DictGet(parsed.d, "key_points", PyNone),
        !.reading_time_minutes =
            DictGet(parsed.d, "reading_time_minutes", PyNone),
        !.success = TRUE,
        !.error = PyNone]

CopyParsed_NoSentiment(result, parsed) ==
    [result EXCEPT
        !.summary = DictGet(parsed.d, "summary", PyStr(<<>>)),
        !.key_points = DictGet(parsed.d, "key_points", PyList(<<>>)),
        !.reading_time_minutes =
            DictGet(parsed.d, "reading_time_minutes", PyInt(0)),
        !.success = TRUE,
        !.error = PyNone]

\* the four parsed.get(key, default) copies, then success
CopyParsed(result, parsed) ==
    [result EXCEPT
        !.summary = DictGet(parsed.d, "summary", PyStr(<<>>)),
        !.sentiment = DictGet(parsed.d, "sentiment", DefaultSentiment),
        !.key_points = DictGet(parsed.d, "key_points", PyList(<<>>)),
        !.reading_time_minutes =
            DictGet(parsed.d, "reading_time_minutes", PyInt(0)),
        !.success = TRUE,
        !.error = PyNone]

\* the AttributeError of parsed.get when parsed is no dict
NoGetAttribute(v) ==
    Exc("AttributeError",
        <<"'", v.t, "'", "object", "has", "no", "attribute", "'get'">>)

\* what follows the token accounting: the content, then the parsed JSON
AfterUsage(counted, response) ==
    IF response.choices = <<>>
    THEN AnalysisFailure(counted,
             Exc("IndexError", <<"list", "index", "out", "of", "range">>))
    ELSE IF ~Truthy(response.choices[1].content)
    THEN [counted EXCEPT !.error = PyStr(EmptyContentMessage)]
    ELSE IF ~response.loads.ok
    THEN JsonFailure(counted, response.loads.exc)
    ELSE IF response.loads.value.t # "dict"
    THEN AnalysisFailure(counted, NoGetAttribute(response.loads.value))
    ELSE CopyParsed(counted, response.loads.value)

\* what follows a response of the chat-completion call
AfterResponse(result, response) ==
    AfterUsage(WithUsage(result, response.usage), response)

\* env.create is what client.chat.completions.create does in this call: it
\* raises, or returns a response with its usage, its choices and, as
\* response.loads, what json.loads makes of the first choice's content.
\* The title only goes into the prompt, which the model does not carry.
analyze_article(article_data, env) ==
    LET text == PyOr(DictGet(article_data, "text", PyNone), PyStr(<<>>))
    IN  IF ~IsStr(text)
        THEN Raises(Exc("AttributeError",
                        <<"'", text.t, "'", "object", "has", "no",
                          "attribute", "'strip'">>), <<>>)
        ELSE IF TextIsBlank(text)
        THEN Returns([BaseResult EXCEPT !.error = PyStr(EmptyTextMessage)],
                     <<>>)
        ELSE IF ~env.create.ok
        THEN Returns(AnalysisFailure(BaseResult, env.create.exc),
                     <<"chat.completions.create">>)
        ELSE Returns(AfterResponse(BaseResult, env.create.response),
                     <<"chat.completions.create">>)

(***************************************************************************)
(* What the environment of analyze_article can do.                         *)
(***************************************************************************)
UsageTokens == {0, 1000, 2000}

Usages ==
    {PyNone} \cup
    {[t |-> "CompletionUsage", prompt_tokens |-> p, completion_tokens |-> c] :
        p \in UsageTokens, c \in UsageTokens}

ApiExceptions ==
    {Exc("APIConnectionError", <<"Connection", "error.">>),
     Exc("RateLimitError", <<"Rate", "limit", "reached">>),
     Exc("Exception", <<>>)}

JsonKeys == {"summary", "sentiment", "key_points", "reading_time_minutes"}

\* the values a model may give each key, well-typed or not
SummaryValues == {PyStr(<<"A", "summary.">>), PyNone}

SentimentValues ==
    {PyDict([label |-> PyStr(<<"positive">>),
             confidence |-> PyFloat(FloatLiteral(85, 2))]),
     PyDict([label |-> PyStr(<<"mixed">>),
             confidence |-> PyFloat(FloatLiteral(15, 1))]),
     PyStr(<<"positive">>)}

KeyPointsValues == {PyList(<<PyStr(<<"point", "1">>)>>), PyNone}

ReadingTimeValues == {PyInt(5), PyStr(<<"five">>)}

JsonFieldValues(key) ==
    CASE key = "summary" -> SummaryValues
      [] key = "sentiment" -> SentimentValues
      [] key = "key_points" -> KeyPointsValues
      [] key = "reading_time_minutes" -> ReadingTimeValues

AllFieldValues == UNION {JsonFieldValues(k) : k \in JsonKeys}

\* JSON objects holding any subset of the four keys
JsonObjects ==
    UNION { { PyDict(d) :
                d \in { f \in [keys -> AllFieldValues] :
                          \A k \in keys : f[k] \in JsonFieldValues(k) } } :
            keys \in SUBSET JsonKeys }

\* JSON values that are no object
JsonNonObjects ==
    {PyList(<<>>), PyList(<<PyStr(<<"point", "1">>)>>), PyInt(5), PyNone,
     PyBool(TRUE), PyStr(<<"positive">>), PyFloat(FloatLiteral(5, 1))}

JsonDecodeError ==
    Exc("JSONDecodeError",
        <<"Expecting", "value:", "line", "1", "column", "1", "(char", "0)">>)

\* the first choice's content, with what json.loads makes of it
ContentsWithLoads ==
    {[content |-> c, loads |-> Failed(JsonDecodeError)] :
        c \in {PyNone, PyStr(<<>>), PyStr(<<" ">>),
               PyStr(<<"Sure!", "Here", "is", "the", "analysis:">>)}}
    \cup
    {[content |-> PyStr(<<"{...}">>), loads |-> [ok |-> TRUE, value |-> v]] :
        v \in JsonObjects}
    \cup
    {[content |-> PyStr(<<v.t>>), loads |-> [ok |-> TRUE, value |-> v]] :
        v \in JsonNonObjects}

Message(content) == [content |-> content]

Responses ==
    {[usage |-> u, choices |-> <<>>, loads |-> Failed(JsonDecodeError)] :
        u \in Usages}
    \cup
    {[usage |-> u, choices |-> <<Message(cl.content)>>, loads |-> cl.loads] :
        u \in Usages, cl \in ContentsWithLoads}

AnalyzeEnvs ==
    {[create |-> Failed(e)] : e \in ApiExceptions}
    \cup {[create |-> [ok |-> TRUE, response |-> r]] : r \in Responses}

\* the records analyze_article may be handed
ArticleRecords ==
    {<<>>, [title |-> PyStr(<<"T">>)]}
    \cup
    {[title |-> PyNone, text |-> x] :
        x \in {PyNone, PyStr(<<>>), PyStr(<<" ">>),
               PyStr(<<" ", "\n", "\t">>), PyInt(5)}}
    \cup
    {[title |-> t, text |-> x] :
        t \in {PyNone, PyStr(<<"T">>)},
        x \in {PyStr(<<"x">>), PyStr(<<" ", "x", "\n">>),
               PyStr(Chars("x", MinTextLen))}}

(***************************************************************************)
(* main.main: the interactive session.                                     *)
(***************************************************************************)
QuitWords == {<<"q">>, <<"q", "u", "i", "t">>, <<"e", "x", "i", "t">>}

YesWords == {<<"y">>, <<"y", "e", "s">>}

ExtractionFailed_Never(article_) == FALSE

\* `not article.get("success", False)`
ExtractionFailed(article_) == ~DictGet(article_, "success", FALSE)

AnalysisFailed_Never(analysis_) == FALSE

\* `not analysis.get("success", False)`
AnalysisFailed(analysis_) == ~DictGet(analysis_, "success", FALSE)

IsNumber(v) == v.t \in {"int", "float", "bool"}

IsIterable(v) == v.t \in {"list", "str", "dict"}

\* whether display_results raises: sentiment.get needs a dict, the
\* confidence is multiplied and formatted as a number, key_points is iterated
DisplayRaises(analysis_) ==
    LET sentiment  == DictGet(analysis_, "sentiment", PyDict(<<>>))
        key_points == DictGet(analysis_, "key_points", PyList(<<>>))
    IN  \/ sentiment.t # "dict"
        \/ ~IsNumber(DictGet(sentiment.d, "confidence", PyFloat(FloatZero)))
        \/ ~IsIterable(key_points)

\* combined_data of save_results_to_file
CombinedData(article_, analysis_) ==
    [article |-> article_, analysis |-> analysis_]

\* what the user may type at the URL prompt
TypedUrls ==
    {<<>>, <<" ">>, <<"q">>, <<" ", "Q", "U", "I", "T">>,
     <<"E", "x", "i", "t", " ">>, <<"q", "q">>,
     <<"f", "t", "p", ":", "/", "/", "a">>,
     <<" ">> \o HttpsPrefix \o <<"a", " ">>}

\* what the user may type at "Analyze another article? (y/n)"
TypedAnswers == {<<"y">>, <<" ", "Y", "E", "S">>, <<"n">>, <<>>}

\* the environment of a session: fewer cases than for the functions alone
SessionTexts ==
    {PyNone,
     PyStr(Chars(" ", 1) \o Chars("x", MinTextLen - 1)),
     PyStr(Chars("x", MinTextLen)),
     PyStr(Chars(" ", MaxPad) \o Chars("x", MinTextLen + 1))}

SessionExtractEnvs ==
    {[download |-> Failed(Exc("SocketTimeout", <<"timed", "out">>))],
     [download |-> Failed(Exc("ConnectionError",
                              <<"Connection", "refused">>))],
     [download |-> Ok, parse |-> Failed(Exc("Exception", <<>>))]}
    \cup
    {[download |-> Ok,
      parse |-> [ok |-> TRUE,
                 article |-> [title |-> PyStr(<<"T", "i", "t", "l", "e">>),
                              text |-> x,
                              authors |-> PyList(<<>>),
                              publish_date |-> PyNone]]] :
        x \in SessionTexts}

SessionUsages ==
    {PyNone,
     [t |-> "CompletionUsage", prompt_tokens |-> 1000,
      completion_tokens |-> 2000]}

SessionContents ==
    {[content |-> PyStr(<<>>), loads |-> Failed(JsonDecodeError)],
     [content |-> PyStr(<<"Sure!">>), loads |-> Failed(JsonDecodeError)],
     [content |-> PyStr(<<"[]">>),
      loads |-> [ok |-> TRUE, value |-> PyList(<<>>)]],
     [content |-> PyStr(<<"{}">>),
      loads |-> [ok |-> TRUE, value |-> PyDict(<<>>)]],
     [content |-> PyStr(<<"{...}">>),
      loads |-> [ok |-> TRUE,
                 value |-> PyDict([summary |-> PyStr(<<"A", "summary.">>),
                                   sentiment |-> PyStr(<<"positive">>)])]],
     [content |-> PyStr(<<"{...}">>),
      loads |-> [ok |-> TRUE,
                 value |-> PyDict(
                    [summary |-> PyStr(<<"A", "summary.">>),
                     sentiment |->
                        PyDict([label |-> PyStr(<<"positive">>),
                                confidence |->
                                    PyFloat(FloatLiteral(85, 2))]),
                     key_points |-> PyList(<<PyStr(<<"point", "1">>)>>),
                     reading_time_minutes |-> PyInt(5)])]]}

SessionAnalyzeEnvs ==
    {[create |-> Failed(Exc("APIConnectionError",
                            <<"Connection", "error.">>))]}
    \cup
    {[create |-> [ok |-> TRUE,
                  response |-> [usage |-> u,
                                choices |-> <<Message(cl.content)>>,
                                loads |-> cl.loads]]] :
        u \in SessionUsages, cl \in SessionContents}

NotSet == [t |-> "unbound"]

(***************************************************************************)
(* The morning update (src/morning_update): the text generators of its two *)
(* openai_client modules.                                                  *)
(***************************************************************************)
\* weather records as get_weather_forecast returns them, and {}
Weathers ==
    {PyDict(<<>>),
     PyDict([name |-> PyStr(<<"Dakar">>),
             summary |-> PyStr(<<"Sunny">>),
             temperature |-> PyInt(30),
             precipitation_total |-> PyNone,
             precipitation_type |-> PyNone])}

\* the headline with this title and this description
Headline(title, description) ==
    PyDict([title |-> title, description |-> description])

\* headline lists of zero to two headlines
HeadlineLists ==
    {PyList(<<>>),
     PyList(<<Headline(PyStr(<<"T1">>), PyStr(<<"D1">>))>>),
     PyList(<<Headline(PyStr(<<"T1">>), PyStr(<<"D1">>)),
              Headline(PyStr(<<"No", "Title">>), PyNone)>>)}

\* what client.chat.completions.create does for a generator: it raises, or
\* returns a response with its usage and its choices
GenerateEnvs ==
    {[create |-> Failed(e)] : e \in ApiExceptions}
    \cup
    {[create |-> [ok |-> TRUE,
                  response |-> [usage |-> u, choices |-> ch]]] :
        u \in SessionUsages,
        ch \in {<<>>, <<Message(PyNone)>>, <<Message(PyStr(<<>>))>>,
                <<Message(PyStr(<<"Good", "morning!">>))>>,
                <<Message(PyStr(<<"Good", "morning!">>)),
                  Message(PyStr(<<"Hello!">>))>>}}

\* portfolio openai_client.generate_text: the chat-completion call, then
\* response.choices[0].message.content
generate_text(prompt, env) ==
    IF ~env.create.ok
    THEN Raises(env.create.exc, <<"chat.completions.create">>)
    ELSE IF env.create.response.choices = <<>>
    THEN Raises(Exc("IndexError", <<"list", "index", "out", "of", "range">>),
                <<"chat.completions.create">>)
    ELSE Returns(env.create.response.choices[1].content,
                 <<"chat.completions.create">>)

generate_update_EmptyForNone(weather, headlines, env) ==
    IF "name" \notin DOMAIN weather.d
    THEN Raises(Exc("KeyError", <<"'name'">>), <<>>)
    ELSE IF ~env.create.ok
    THEN Raises(env.create.exc, <<"chat.completions.create">>)
    ELSE IF env.create.response.choices = <<>>
    THEN Raises(Exc("IndexError", <<"list", "index", "out", "of", "range">>),
                <<"chat.completions.create">>)
    ELSE Returns(PyOr(env.create.response.choices[1].content, PyStr(<<>>)),
                 <<"chat.completions.create">>)

\* morning_update openai_client.generate_update: weather["name"] in the
\* user message, the chat-completion call, then
\* response.choices[0].message.content
generate_update(weather, headlines, env) ==
    IF "name" \notin DOMAIN weather.d
    THEN Raises(Exc("KeyError", <<"'name'">>), <<>>)
    ELSE IF ~env.create.ok
    THEN Raises(env.create.exc, <<"chat.completions.create">>)
    ELSE IF env.create.response.choices = <<>>
    THEN Raises(Exc("IndexError", <<"list", "index", "out", "of", "range">>),
                <<"chat.completions.create">>)
    ELSE Returns(env.create.response.choices[1].content,
                 <<"chat.completions.create">>)

(***************************************************************************)
(* The morning update: news_client.get_news_headlines and                  *)
(* meteo_client.get_weather_forecast.  The outcome of one requests.get is  *)
(* a raised exception, or a response with its status and, as body, what    *)
(* response.json() makes of it.                                            *)
(***************************************************************************)
\* requests.exceptions.RequestException and its subclasses
RequestExceptions ==
    {"RequestException", "ConnectionError", "Timeout", "ConnectTimeout",
     "HTTPError", "TooManyRedirects", "RequestsJSONDecodeError"}

Caught_NoCatchAll(e) == e.cls \in {"ConnectionError", "Timeout", "HTTPError"}

\* whether the four except clauses of a fetcher catch the exception
Caught(e) == e.cls \in RequestExceptions

\* requests.get(...), raise_for_status() and json(): the parsed body, or the
\* exception raised on the way; raise_for_status raises for 4xx and 5xx
Fetched(get) ==
    IF ~get.ok THEN get
    ELSE IF get.status >= 400 /\ get.status < 600
    THEN Failed(Exc("HTTPError", <<"Client", "or", "Server", "Error">>))
    ELSE get.body

\* the outcomes of a requests.get whose body, when it is JSON, is one of
\* `values`: the json() of older versions of requests raises a ValueError
\* that is no RequestException
HttpOutcomes(values) ==
    {Failed(Exc(cls, <<>>)) :
        cls \in {"ConnectionError", "Timeout", "ConnectTimeout",
                 "TooManyRedirects"}}
    \cup
    {[ok |-> TRUE, status |-> s, body |-> b] :
        s \in {200, 300, 404, 500},
        b \in {Failed(Exc("RequestsJSONDecodeError", <<>>)),
               Failed(Exc("JSONDecodeError", <<>>))}
              \cup {[ok |-> TRUE, value |-> v] : v \in values}}

\* the bodies of the news endpoint: with zero to two articles, one of them
\* without title or with a null description, and bodies of another shape
NewsBodies ==
    {PyDict([articles |-> PyList(a)]) :
        a \in {<<>>,
               <<PyDict([title |-> PyStr(<<"T1">>),
                         description |-> PyStr(<<"D1">>),
                         url |-> PyStr(<<"u1">>)])>>,
               <<PyDict([description |-> PyStr(<<"D1">>)]),
                 PyDict([title |-> PyStr(<<"T2">>),
                         description |-> PyNone])>>,
               <<PyDict(<<>>)>>,
               <<PyStr(<<"T1">>)>>}}
    \cup {PyDict([status |-> PyStr(<<"error">>)]), PyList(<<>>)}

\* the headline made of one article of the response
HeadlineOf(article) ==
    Headline(DictGet(article.d, "title", PyStr(<<"No", "Title">>)),
             DictGet(article.d, "description",
                     PyStr(<<"No", "Description">>)))

\* what follows data = response.json(): the debugging prints, then one
\* headline per article
HeadlinesOf(data) ==
    IF data.t # "dict"
    THEN Raises(Exc("AttributeError", <<"keys">>), <<"GET top-headlines">>)
    ELSE IF "articles" \notin DOMAIN data.d
    THEN Raises(Exc("KeyError", <<"'articles'">>), <<"GET top-headlines">>)
    ELSE IF data.d.articles.l = <<>>
    THEN Raises(Exc("IndexError", <<"list", "index", "out", "of", "range">>),
                <<"GET top-headlines">>)
    ELSE IF \E i \in 1..Len(data.d.articles.l) :
                data.d.articles.l[i].t # "dict"
    THEN Raises(Exc("AttributeError", <<"get">>), <<"GET top-headlines">>)
    ELSE Returns(PyList([i \in 1..Len(data.d.articles.l) |->
                            HeadlineOf(data.d.articles.l[i])]),
                 <<"GET top-headlines">>)

\* news_client.get_news_headlines; env.get is the outcome of its request
get_news_headlines(env) ==
    IF Fetched(env.get).ok THEN HeadlinesOf(Fetched(env.get).value)
    ELSE IF Caught(Fetched(env.get).exc)
    THEN Returns(PyList(<<>>), <<"GET top-headlines">>)
    ELSE Raises(Fetched(env.get).exc, <<"GET top-headlines">>)

\* the bodies of the place lookup: no match, one match, two matches, a
\* match without place_id, and bodies that are no list
PlaceBodies ==
    {PyList(<<>>),
     PyList(<<PyDict([name |-> PyStr(<<"Dakar">>),
                      place_id |-> PyStr(<<"dakar">>)])>>),
     PyList(<<PyDict([name |-> PyStr(<<"Dakar">>),
                      place_id |-> PyStr(<<"dakar">>)]),
              PyDict([name |-> PyStr(<<"Dakar", "Bango">>),
                      place_id |-> PyStr(<<"dakar-bango">>)])>>),
     PyList(<<PyDict([place_id |-> PyStr(<<"dakar-bango">>)])>>),
     PyList(<<PyDict([name |-> PyStr(<<"Dakar">>)])>>),
     PyDict(<<>>),
     PyDict([detail |-> PyStr(<<"Invalid", "key">>)])}

\* the bodies of the forecast endpoint
PointBodies ==
    {PyDict([current |->
                PyDict([summary |-> PyStr(<<"Sunny">>),
                        temperature |-> PyInt(30),
                        precipitation |->
                            PyDict([total |-> PyInt(0),
                                    type |-> PyStr(<<"none">>)])])]),
     PyDict([current |-> PyDict([temperature |-> PyInt(30)])]),
     PyDict(<<>>),
     PyDict([current |-> PyNone]),
     PyList(<<>>)}

\* the record get_weather_forecast builds from the first match and the
\* current weather
WeatherRecord(place, current) ==
    LET precipitation == DictGet(current.d, "precipitation", PyNone)
    IN  PyDict(
         [name |-> place.d.name,
          summary |-> DictGet(current.d, "summary",
                              PyStr(<<"No", "summary", "available">>)),
          temperature |-> DictGet(current.d, "temperature", PyNone),
          precipitation_total |->
             IF Truthy(precipitation)
             THEN DictGet(precipitation.d, "total", PyNone) ELSE PyNone,
          precipitation_type |->
             IF Truthy(precipitation)
             THEN DictGet(precipitation.d, "TYPE", PyNone) ELSE PyNone])

ForecastFor_SecondMatch(places, fetched) ==
    LET calls == <<"GET find_places_prefix", "GET point">>
        place == places[Len(places)]
        asked == [place_id |-> place.d.place_id]
    IN  IF ~fetched.ok
        THEN IF Caught(fetched.exc)
             THEN Returns(PyDict(<<>>), calls) @@ asked
             ELSE Raises(fetched.exc, calls) @@ asked
        ELSE IF fetched.value.t # "dict"
        THEN Raises(Exc("AttributeError", <<"keys">>), calls) @@ asked
        ELSE IF DictGet(fetched.value.d, "current", PyDict(<<>>)).t # "dict"
        THEN Raises(Exc("AttributeError", <<"get">>), calls) @@ asked
        ELSE IF "name" \notin DOMAIN place.d
        THEN Raises(Exc("KeyError", <<"'name'">>), calls) @@ asked
        ELSE Returns(WeatherRecord(place,
                        DictGet(fetched.value.d, "current", PyDict(<<>>))),
                     calls) @@ asked

\* the forecast request for place_data[0] and what is made of its outcome;
\* place_id is the place the request asked for
ForecastFor(places, fetched) ==
    LET calls == <<"GET find_places_prefix", "GET point">>
        place == places[1]
        asked == [place_id |-> place.d.place_id]
    IN  IF ~fetched.ok
        THEN IF Caught(fetched.exc)
             THEN Returns(PyDict(<<>>), calls) @@ asked
             ELSE Raises(fetched.exc, calls) @@ asked
        ELSE IF fetched.value.t # "dict"
        THEN Raises(Exc("AttributeError", <<"keys">>), calls) @@ asked
        ELSE IF DictGet(fetched.value.d, "current", PyDict(<<>>)).t # "dict"
        THEN Raises(Exc("AttributeError", <<"get">>), calls) @@ asked
        ELSE IF "name" \notin DOMAIN place.d
        THEN Raises(Exc("KeyError", <<"'name'">>), calls) @@ asked
        ELSE Returns(WeatherRecord(place,
                        DictGet(fetched.value.d, "current", PyDict(<<>>))),
                     calls) @@ asked

\* meteo_client.get_weather_forecast; env.find and env.point are the
\* outcomes of the place lookup and of the forecast request
get_weather_forecast(city, env) ==
    IF ~Fetched(env.find).ok
    THEN IF Caught(Fetched(env.find).exc)
         THEN Returns(PyDict(<<>>), <<"GET find_places_prefix">>)
         ELSE Raises(Fetched(env.find).exc, <<"GET find_places_prefix">>)
    ELSE IF ~Truthy(Fetched(env.find).value)
    THEN Returns(PyDict(<<>>), <<"GET find_places_prefix">>)
    ELSE IF Fetched(env.find).value.t # "list"
    THEN Raises(Exc("KeyError", <<"0">>), <<"GET find_places_prefix">>)
    ELSE IF "place_id" \notin DOMAIN Fetched(env.find).value.l[1].d
    THEN Raises(Exc("KeyError", <<"'place_id'">>),
                <<"GET find_places_prefix">>)
    ELSE ForecastFor(Fetched(env.find).value.l, Fetched(env.point))

(***************************************************************************)
(* The morning update: main.py.  env.generate_text tells whether the       *)
(* openai_client module the import finds defines generate_text (the one of *)
(* src/portfolio does, the one next to main.py does not); the other fields *)
(* are the outcomes of the requests and of the chat-completion call.       *)
(***************************************************************************)
\* main.check_data_availability
check_data_availability(weather_data, headlines_data) ==
    IF ~Truthy(weather_data)
    THEN Raises(Exc("ValueError", <<"No", "weather", "data", "available.">>),
                <<>>)
    ELSE IF ~Truthy(headlines_data)
    THEN Raises(Exc("ValueError", <<"No", "news", "headlines", "available.">>),
                <<>>)
    ELSE Returns(PyBool(TRUE), <<>>)

\* how a run of main.py ends after the exception e left the try block:
\* both handlers print and exit(1); `steps` are the functions called
Handled(e, calls, steps) ==
    Raises(e, calls)
    @@ [steps |-> steps,
        handler |-> IF e.cls \in {"ValueError", "JSONDecodeError"}
                    THEN "except ValueError" ELSE "except Exception"]

\* main.py from the availability check on
CheckAndGenerate(weather, headlines, calls, env) ==
    LET steps == <<"get_weather_forecast", "get_news_headlines",
                   "check_data_availability">>
        checked == check_data_availability(weather, headlines)
        update == generate_text(PyStr(<<"Please", "generate">>), env)
    IN  IF ~checked.returned THEN Handled(checked.exc, calls, steps)
        ELSE IF "name" \notin DOMAIN weather.d
        THEN Handled(Exc("KeyError", <<"'name'">>), calls, steps)
        ELSE IF ~update.returned
        THEN Handled(update.exc, calls \o update.calls,
                     Append(steps, "generate_text"))
        ELSE Returns(PyNone, calls \o update.calls)
             @@ [steps |-> Append(steps, "generate_text"),
                 handler |-> "none"]

\* main.py run as a script: the imports, then the try block.  `args` are
\* the arguments of the call of get_news_headlines, which takes none
morning_main(args, env) ==
    LET weather == get_weather_forecast(PyStr(<<"dakar,", "Senegal">>), env)
        news == get_news_headlines(env)
    IN  IF ~env.generate_text
        THEN Raises(Exc("ImportError", <<"generate_text">>), <<>>)
             @@ [steps |-> <<>>, handler |-> "none"]
        ELSE IF ~weather.returned
        THEN Handled(weather.exc, weather.calls, <<"get_weather_forecast">>)
        ELSE IF Len(args) # 0
        THEN Handled(Exc("TypeError", <<"takes", "0", "positional">>),
                     weather.calls,
                     <<"get_weather_forecast", "get_news_headlines">>)
        ELSE IF ~news.returned
        THEN Handled(news.exc, weather.calls \o news.calls,
                     <<"get_weather_forecast", "get_news_headlines">>)
        ELSE CheckAndGenerate(
                weather.value,
                PyList(SubSeq(news.value.l, 1,
                              IF Len(news.value.l) < 3
                              THEN Len(news.value.l) ELSE 3)),
                weather.calls \o news.calls, env)

(***************************************************************************)
(* The morning update: openai_client.text_to_speech.  env.now is what      *)
(* datetime.now() reads, in milliseconds; env.speech is what               *)
(* client.audio.speech.create does (the SDK returns bytes or a binary      *)
(* response object); env.open and env.write are what the file system does. *)
(***************************************************************************)
Strftime_ToTheMinute(now, fmt) == [fmt |-> fmt, second |-> now \div 60000]

\* datetime.now().strftime(fmt), for the formats of the file names: the
\* clock's reading to the second
Strftime(now, fmt) == [fmt |-> fmt, second |-> now \div 1000]

text_to_speech_ReturnsPath(text, voice, env) ==
    LET out_path == <<"output", "morning_update_",
                      Strftime(env.now, "%Y%m%d_%H%M%S"), ".mp3">>
        calls == <<"audio.speech.create">>
    IN  IF ~env.speech.ok \/ ~env.open.ok
        THEN Returns(out_path, calls) @@ [path |-> out_path, file |-> "none"]
        ELSE IF env.speech.response # "bytes" \/ ~env.write.ok
        THEN Returns(out_path, calls) @@ [path |-> out_path, file |-> "empty"]
        ELSE Returns(out_path, calls) @@ [path |-> out_path, file |-> "mp3"]

\* openai_client.text_to_speech: `path` is out_path and `file` what the
\* call left there; the handler logs and re-raises
text_to_speech(text, voice, env) ==
    LET out_path == <<"output", "morning_update_",
                      Strftime(env.now, "%Y%m%d_%H%M%S"), ".mp3">>
        calls == <<"audio.speech.create">>
    IN  IF ~env.speech.ok
        THEN Raises(env.speech.exc, calls)
             @@ [path |-> out_path, file |-> "none"]
        ELSE IF ~env.open.ok
        THEN Raises(env.open.exc, calls)
             @@ [path |-> out_path, file |-> "none"]
        ELSE IF env.speech.response # "bytes"
        THEN Raises(Exc("TypeError", <<"a", "bytes-like", "object">>), calls)
             @@ [path |-> out_path, file |-> "empty"]
        ELSE IF ~env.write.ok
        THEN Raises(env.write.exc, calls)
             @@ [path |-> out_path, file |-> "empty"]
        ELSE Returns(out_path, calls)
             @@ [path |-> out_path, file |-> "mp3"]

(***************************************************************************)
(* The AI content analyzer: main.sanitize_filename and                     *)
(* main.save_results_to_file.  Titles are sequences of characters; env.now *)
(* is what datetime.now() reads, in milliseconds, and env.open what        *)
(* opening the output file does.                                           *)
(***************************************************************************)
\* main.sanitize_filename
sanitize_filename(text) ==
    LET allowed_chars ==
            {LowerCase[i] : i \in 1..Len(LowerCase)}
            \cup {"0", "1", "2", "3", "4", "5", "6", "7", "8", "9", "-", "_"}
        lowered == Lower(Strip(text.s))
        cleaned == [i \in 1..Len(lowered) |->
                        IF lowered[i] = " " THEN "-" ELSE lowered[i]]
    IN  IF ~Truthy(text) THEN PyStr(<<"article">>)
        ELSE PyOr(PyStr(SelectSeq(cleaned, LAMBDA c : c \in allowed_chars)),
                  PyStr(<<"article">>))

\* main.save_results_to_file: `path` is output_path and `file` what the
\* call left there
save_results_to_file(output_dir, article, analysis, env) ==
    LET title == PyOr(DictGet(article.d, "title", PyNone),
                      PyStr(<<"article">>))
        output_path == <<output_dir, sanitize_filename(title).s, "-",
                         Strftime(env.now, "%Y%m%d-%H%M%S"), ".json">>
    IN  IF ~env.open.ok
        THEN Raises(env.open.exc, <<>>)
             @@ [path |-> output_path, file |-> "none"]
        ELSE Returns(output_path, <<>>)
             @@ [path |-> output_path, file |-> "json"]

(***************************************************************************)
(* State.  fn, arg, env and out describe one call of a function on its own *)
(* (specification SpecFn); the others are the state of main.main           *)
(* (specification Spec).                                                   *)
(***************************************************************************)
VARIABLES
    fn,              \* the function called, "none" before the call
    arg,             \* its argument
    env,             \* what its environment did
    out              \* its outcome

fvars == <<fn, arg, env, out>>

NoCall == [returned |-> FALSE, calls |-> <<>>]

InitFn ==
    /\ fn = "none"
    /\ arg = PyNone
    /\ env = PyNone
    /\ out = NoCall


VARIABLES
    pc,              \* where main is: prompt, extract, analyze, present, save,
                     \* count, again, summary, done, crashed
    url,             \* the URL typed last
    article,         \* extract_article's result for it
    analysis,        \* analyze_article's result for it
    events,          \* the calls made for this URL, in order
    total_articles,
    total_cost,
    saved,           \* the files written, in order
    summaries,       \* how many times the session summary was printed
    entered          \* how many lines were typed at the URL prompt

svars == <<pc, url, article, analysis, events, total_articles, total_cost,
           saved, summaries, entered>>

vars == <<fvars, svars>>

InitSession ==
    /\ pc = "prompt"
    /\ url = NotSet
    /\ article = NotSet
    /\ analysis = NotSet
    /\ events = <<>>
    /\ total_articles = 0
    /\ total_cost = FloatZero
    /\ saved = <<>>
    /\ summaries = 0
    /\ entered = 0

Init == InitFn /\ InitSession

\* url = input(...).strip(), and what the loop does with an empty line or a
\* quit word; article_data and analysis keep what the last URL left
ReadUrl ==
    /\ pc = "prompt"
    /\ entered < MaxUrls
    /\ \E raw \in TypedUrls :
        /\ url' = PyStr(Strip(raw))
        /\ pc' = IF ~Truthy(PyStr(Strip(raw))) THEN "prompt"
                 ELSE IF Lower(Strip(raw)) \in QuitWords THEN "summary"
                 ELSE "extract"
    /\ entered' = entered + 1
    /\ events' = <<>>
    /\ UNCHANGED <<article, analysis, total_articles, total_cost, saved,
                   summaries, fvars>>

AfterExtract_Retry(outcome) ==
    /\ events' = events \o <<"extract_article">> \o outcome.calls
    /\ IF ~outcome.returned
       THEN /\ pc' = "prompt"
            /\ article' = article
       ELSE /\ article' = outcome.value
            /\ pc' = IF ExtractionFailed(outcome.value)
                     THEN "extract" ELSE "analyze"

\* what main does with the outcome of extract_article(url)
AfterExtract(outcome) ==
    /\ events' = events \o <<"extract_article">> \o outcome.calls
    /\ IF ~outcome.returned
       THEN /\ pc' = "prompt"
            /\ article' = article
       ELSE /\ article' = outcome.value
            /\ pc' = IF ExtractionFailed(outcome.value)
                     THEN "prompt" ELSE "analyze"

Extract ==
    /\ pc = "extract"
    /\ \E e \in SessionExtractEnvs : AfterExtract(extract_article(url, e))
    /\ UNCHANGED <<url, analysis, total_articles, total_cost, saved,
                   summaries, entered, fvars>>

\* what main does with the outcome of analyze_article(article)
AfterAnalyze(outcome) ==
    /\ events' = events \o <<"analyze_article">> \o outcome.calls
    /\ IF ~outcome.returned
       THEN /\ pc' = "crashed"
            /\ analysis' = analysis
       ELSE /\ analysis' = outcome.value
            /\ pc' = IF AnalysisFailed(outcome.value)
                     THEN "prompt" ELSE "present"

Analyze ==
    /\ pc = "analyze"
    /\ \E e \in SessionAnalyzeEnvs : AfterAnalyze(analyze_article(article, e))
    /\ UNCHANGED <<url, article, total_articles, total_cost, saved,
                   summaries, entered, fvars>>

\* display_results(article, analysis)
Present ==
    /\ pc = "present"
    /\ pc' = IF DisplayRaises(analysis) THEN "crashed" ELSE "save"
    /\ events' = events \o <<"display_results">>
    /\ UNCHANGED <<url, article, analysis, total_articles, total_cost, saved,
                   summaries, entered, fvars>>

\* save_results_to_file(output_dir, article, analysis)
Save ==
    /\ pc = "save"
    /\ pc' = "count"
    /\ events' = events \o <<"save_results_to_file">>
    /\ saved' = Append(saved, CombinedData(article, analysis))
    /\ UNCHANGED <<url, article, analysis, total_articles, total_cost,
                   summaries, entered, fvars>>

Count_ArticlesOnly ==
    /\ pc = "count"
    /\ pc' = "again"
    /\ total_articles' = total_articles + 1
    /\ UNCHANGED <<url, article, analysis, events, total_cost, saved,
                   summaries, entered, fvars>>

\* the session statistics: total_articles += 1 and
\* total_cost += float(analysis.get("cost_usd", 0.0))
Count ==
    /\ pc = "count"
    /\ pc' = "again"
    /\ total_articles' = total_articles + 1
    /\ total_cost' = FloatAdd(total_cost,
                              DictGet(analysis, "cost_usd", FloatZero))
    /\ UNCHANGED <<url, article, analysis, events, saved, summaries, entered,
                   fvars>>

Again ==
    /\ pc = "again"
    /\ \E typed \in TypedAnswers :
        pc' = IF Lower(Strip(typed)) \in YesWords THEN "prompt" ELSE "summary"
    /\ UNCHANGED <<url, article, analysis, events, total_articles, total_cost,
                   saved, summaries, entered, fvars>>

\* Ctrl+C anywhere in the loop: `except KeyboardInterrupt`
Interrupt ==
    /\ pc \in {"prompt", "extract", "analyze", "present", "save", "count",
              "again"}
    /\ pc' = "summary"
    /\ UNCHANGED <<url, article, analysis, events, total_articles, total_cost,
                   saved, summaries, entered, fvars>>

\* the session summary
Summary ==
    /\ pc = "summary"
    /\ summaries' = summaries + 1
    /\ pc' = "done"
    /\ UNCHANGED <<url, article, analysis, events, total_articles, total_cost,
                   saved, entered, fvars>>

Next == ReadUrl \/ Extract \/ Analyze \/ Present \/ Save \/ Count \/ Again
        \/ Interrupt \/ Summary

Spec == Init /\ [][Next]_vars

(***************************************************************************)
(* The functions called on their own: one call, with any argument and any  *)
(* behaviour of the environment.                                           *)
(***************************************************************************)
CostTokens == (0..MaxTokens) \cup {1000, 2000, 123456, 999999, 1000000}

CallExtractArticle ==
    /\ fn = "none"
    /\ \E u \in UrlValues, e \in ExtractEnvs :
        /\ fn' = "extract_article"
        /\ arg' = u
        /\ env' = e
        /\ out' = extract_article(u, e)
    /\ UNCHANGED svars

CallAnalyzeArticle ==
    /\ fn = "none"
    /\ \E article_data \in ArticleRecords, e \in AnalyzeEnvs :
        /\ fn' = "analyze_article"
        /\ arg' = article_data
        /\ env' = e
        /\ out' = analyze_article(article_data, e)
    /\ UNCHANGED svars

CallCalculateCost ==
    /\ fn = "none"
    /\ \E p \in CostTokens, c \in CostTokens :
        /\ fn' = "calculate_cost"
        /\ arg' = [prompt_tokens |-> p, completion_tokens |-> c]
        /\ env' = PyNone
        /\ out' = Returns(calculate_cost(p, c), <<>>)
    /\ UNCHANGED svars

CallGenerateUpdate ==
    /\ fn = "none"
    /\ \E weather \in Weathers, headlines \in HeadlineLists,
          e \in GenerateEnvs :
        /\ fn' = "generate_update"
        /\ arg' = [weather |-> weather, headlines |-> headlines]
        /\ env' = e
        /\ out' = generate_update(weather, headlines, e)
    /\ UNCHANGED svars

CallGenerateText ==
    /\ fn = "none"
    /\ \E prompt \in {PyStr(<<>>), PyStr(<<"Please", "generate">>)},
          e \in GenerateEnvs :
        /\ fn' = "generate_text"
        /\ arg' = prompt
        /\ env' = e
        /\ out' = generate_text(prompt, e)
    /\ UNCHANGED svars

CallGetNewsHeadlines ==
    /\ fn = "none"
    /\ \E g \in HttpOutcomes(NewsBodies) :
        /\ fn' = "get_news_headlines"
        /\ arg' = PyNone
        /\ env' = [get |-> g]
        /\ out' = get_news_headlines([get |-> g])
    /\ UNCHANGED svars

CallGetWeatherForecast ==
    /\ fn = "none"
    /\ \E f \in HttpOutcomes(PlaceBodies), p \in HttpOutcomes(PointBodies) :
        /\ fn' = "get_weather_forecast"
        /\ arg' = PyStr(<<"dakar,", "Senegal">>)
        /\ env' = [find |-> f, point |-> p]
        /\ out' = get_weather_forecast(PyStr(<<"dakar,", "Senegal">>),
                                       [find |-> f, point |-> p])
    /\ UNCHANGED svars

\* one run of the morning update's main.py, which calls
\* get_news_headlines(SOURCE_COUNTRY_CODE)
CallMorningMain ==
    /\ fn = "none"
    /\ \E g \in BOOLEAN,
          f \in {Failed(Exc("Timeout", <<>>))}
                \cup {[ok |-> TRUE, status |-> 200,
                       body |-> [ok |-> TRUE, value |-> b]] :
                         b \in PlaceBodies},
          p \in {Failed(Exc("Timeout", <<>>))}
                \cup {[ok |-> TRUE, status |-> 200,
                       body |-> [ok |-> TRUE, value |-> b]] :
                         b \in PointBodies},
          n \in {[ok |-> TRUE, status |-> 200,
                  body |-> [ok |-> TRUE, value |-> b]] : b \in NewsBodies},
          c \in {e \in GenerateEnvs :
                    e.create.ok => e.create.response.usage = PyNone} :
        /\ fn' = "main"
        /\ arg' = <<PyStr(<<"us">>)>>
        /\ env' = [generate_text |-> g, find |-> f, point |-> p, get |-> n,
                   create |-> c.create]
        /\ out' = morning_main(<<PyStr(<<"us">>)>>,
                               [generate_text |-> g, find |-> f, point |-> p,
                                get |-> n, create |-> c.create])
    /\ UNCHANGED svars

CallTextToSpeech ==
    /\ fn = "none"
    /\ \E now \in {0, 999, 1000},
          s \in {Failed(e) : e \in ApiExceptions}
                \cup {[ok |-> TRUE, response |-> r] :
                        r \in {"bytes", "HttpxBinaryResponseContent"}},
          o \in {Ok, Failed(Exc("PermissionError", <<>>))},
          w \in {Ok, Failed(Exc("OSError", <<"No", "space", "left">>))},
          text \in {PyStr(<<>>), PyStr(<<"Good", "morning!">>)} :
        /\ fn' = "text_to_speech"
        /\ arg' = [text |-> text, voice |-> PyStr(<<"alloy">>)]
        /\ env' = [now |-> now, speech |-> s, open |-> o, write |-> w]
        /\ out' = text_to_speech(text, PyStr(<<"alloy">>),
                      [now |-> now, speech |-> s, open |-> o, write |-> w])
    /\ UNCHANGED svars

\* two invocations of save_results_to_file at the same time, each with its
\* reading of the clock
CallSaveResultsTwice ==
    /\ fn = "none"
    /\ \E t1, t2 \in {PyNone, PyStr(<<"A", " ", "b">>),
                      PyStr(<<"a", "-", "b">>), PyStr(<<"a", "/", "b">>),
                      PyStr(<<"!", "?">>)},
          now1, now2 \in {0, 999, 1000},
          o \in {Ok, Failed(Exc("PermissionError", <<>>))} :
        /\ fn' = "save_results_to_file twice"
        /\ arg' = <<PyDict([title |-> t1]), PyDict([title |-> t2])>>
        /\ env' = <<[now |-> now1, open |-> Ok], [now |-> now2, open |-> o]>>
        /\ out' = <<save_results_to_file("outputs", PyDict([title |-> t1]),
                        PyDict(<<>>), [now |-> now1, open |-> Ok]),
                    save_results_to_file("outputs", PyDict([title |-> t2]),
                        PyDict(<<>>), [now |-> now2, open |-> o])>>
    /\ UNCHANGED svars

\* two invocations of text_to_speech at the same time
CallTextToSpeechTwice ==
    /\ fn = "none"
    /\ \E now1, now2 \in {0, 999, 1000},
          s \in {Failed(Exc("RateLimitError", <<>>)),
                 [ok |-> TRUE, response |-> "bytes"],
                 [ok |-> TRUE, response |-> "HttpxBinaryResponseContent"]},
          text1, text2 \in {PyStr(<<"Good", "morning!">>),
                            PyStr(<<"Hello!">>)} :
        /\ fn' = "text_to_speech twice"
        /\ arg' = <<[text |-> text1], [text |-> text2]>>
        /\ env' = <<[now |-> now1, speech |-> [ok |-> TRUE,
                                               response |-> "bytes"],
                     open |-> Ok, write |-> Ok],
                    [now |-> now2, speech |-> s, open |-> Ok, write |-> Ok]>>
        /\ out' = <<text_to_speech(text1, PyStr(<<"alloy">>),
                        [now |-> now1,
                         speech |-> [ok |-> TRUE, response |-> "bytes"],
                         open |-> Ok, write |-> Ok]),
                    text_to_speech(text2, PyStr(<<"alloy">>),
                        [now |-> now2, speech |-> s, open |-> Ok,
                         write |-> Ok])>>
    /\ UNCHANGED svars

NextFn ==
    \/ CallExtractArticle \/ CallAnalyzeArticle \/ CallCalculateCost
    \/ CallGenerateUpdate \/ CallGenerateText
    \/ CallGetNewsHeadlines \/ CallGetWeatherForecast
    \/ CallMorningMain \/ CallTextToSpeech
    \/ CallSaveResultsTwice \/ CallTextToSpeechTwice

SpecFn == Init /\ [][NextFn]_vars

\* one run of either script: a session of the content analyzer, or the
\* morning update
NextPipelines ==
    \/ fn = "none" /\ ReadUrl
    \/ fn = "none" /\ Extract
    \/ fn = "none" /\ Analyze
    \/ fn = "none" /\ Present
    \/ fn = "none" /\ Save
    \/ fn = "none" /\ Count
    \/ fn = "none" /\ Again
    \/ fn = "none" /\ Interrupt
    \/ fn = "none" /\ Summary
    \/ pc = "prompt" /\ entered = 0 /\ CallMorningMain

SpecPipelines == Init /\ [][NextPipelines]_vars

(***************************************************************************)
(* The claims.  The claims about one call of a function are checked under *)
(* SpecFn, those about the session of the content analyzer under Spec, and *)
(* C18, about both scripts, under SpecPipelines.                           *)
(***************************************************************************)
Extracted == fn = "extract_article"

Analyzed == fn = "analyze_article"

\* the URLs the claims call invalid: empty, no string, or without the
\* http:// or https:// prefix
InvalidUrl(u) ==
    \/ u.t # "str"
    \/ u.s = <<>>
    \/ /\ ~StartsWith(u.s, HttpPrefix)
       /\ ~StartsWith(u.s, HttpsPrefix)

NonEmptyStr(v) == v.t = "str" /\ Len(v.s) > 0

\* whether the message `hay` contains the words `needle`, in a row
Contains(hay, needle) ==
    \E i \in 1..(Len(hay) - Len(needle) + 1) :
        SubSeq(hay, i, i + Len(needle) - 1) = needle

\* C1: every ExtractionResult that extract_article returns with success=true
\* has a text, and the text has at least 50 characters after trimming
C1_SuccessHasLongText ==
    (Extracted /\ out.returned /\ out.value.success) =>
        /\ out.value.text.t = "str"
        /\ Len(Strip(out.value.text.s)) >= 50

\* C1's case: a success whose text is exactly 50 characters once its
\* surrounding blanks are trimmed
C1_Witness ==
    /\ Extracted /\ out.returned /\ out.value.success
    /\ Len(Strip(out.value.text.s)) = 50
    /\ Len(out.value.text.s) > 50

\* C2: an empty, non-string or non-http(s) url makes extract_article raise
\* ValueError: no result record, and no download started
C2_InvalidUrlRaises ==
    (Extracted /\ InvalidUrl(arg)) =>
        /\ ~out.returned
        /\ out.exc.cls = "ValueError"
        /\ out.calls = <<>>

\* C2's case: a string url with another scheme was refused
C2_Witness ==
    /\ Extracted
    /\ arg.t = "str" /\ Len(arg.s) > 0
    /\ InvalidUrl(arg)
    /\ ~out.returned

\* whether the download or the parse of this extract_article call raised
DownloadOrParseRaised ==
    /\ Extracted /\ ~InvalidUrl(arg)
    /\ \/ ~env.download.ok
       \/ ~env.parse.ok

\* whether the chat-completion call of this analyze_article call raised
ChatCallRaised ==
    /\ Analyzed
    /\ out.calls # <<>>
    /\ ~env.create.ok

DownloadTimedOut ==
    /\ Extracted /\ ~InvalidUrl(arg)
    /\ ~env.download.ok
    /\ env.download.exc.cls \in
        {"RequestsTimeout", "SocketTimeout", "TimeoutError"}

C5_AnalyzeOnlyAfterSuccess ==
    \A i \in 1..Len(events) :
        events[i] = "analyze_article" =>
            /\ \E j \in 1..(i - 1) : events[j] = "extract_article"
            /\ article # NotSet
            /\ article.success = TRUE
            /\ article.url = url

\* C5's case: the analyzer was called for a URL
C5_Witness ==
    /\ \E i \in 1..Len(events) : events[i] = "analyze_article"
    /\ article.success = TRUE

\* the article records the claims call empty of text
BlankText(article_data) ==
    \/ "text" \notin DOMAIN article_data
    \/ article_data.text = PyNone
    \/ /\ article_data.text.t = "str"
       /\ \A i \in 1..Len(article_data.text.s) :
            article_data.text.s[i] \in {" ", "\t", "\n"}

\* C6: for an absent, empty or whitespace-only text analyze_article returns
\* success=false with the empty-text error, zero tokens and zero cost, and
\* does not call the chat-completion endpoint
C6_BlankTextFailsFast ==
    (Analyzed /\ BlankText(arg)) =>
        /\ out.returned
        /\ out.value.success = FALSE
        /\ out.value.error =
            PyStr(<<"Article", "text", "is", "empty.", "Cannot", "analyze.">>)
        /\ out.value.tokens_used = [prompt |-> 0, completion |-> 0, total |-> 0]
        /\ out.value.cost_usd = FloatZero
        /\ out.calls = <<>>

\* C6's case: a text of whitespace only
C6_Witness ==
    /\ Analyzed
    /\ "text" \in DOMAIN arg
    /\ arg.text.t = "str" /\ Len(arg.text.s) > 1
    /\ BlankText(arg)
    /\ out.returned

\* whether the chat-completion call of this analyze_article call returned a
\* response with a first choice
Responded ==
    /\ Analyzed
    /\ out.calls # <<>>
    /\ env.create.ok
    /\ env.create.response.choices # <<>>

\* the content of the response's first choice
Content == env.create.response.choices[1].content

\* the tokens_used the usage metadata of a response stand for
UsageCounts(usage) ==
    IF usage = PyNone
    THEN [prompt |-> 0, completion |-> 0, total |-> 0]
    ELSE [prompt |-> usage.prompt_tokens,
          completion |-> usage.completion_tokens,
          total |-> usage.prompt_tokens + usage.completion_tokens]

\* the result carries the tokens and the cost of the response's usage
MetricsKept(result, usage) ==
    /\ result.tokens_used = UsageCounts(usage)
    /\ result.cost_usd = calculate_cost(UsageCounts(usage).prompt,
                                        UsageCounts(usage).completion)

\* a failure record whose error carries the message of the parse error
ParseFailure(result, json_error) ==
    /\ result.success = FALSE
    /\ result.error.t = "str"
    /\ Contains(result.error.s, json_error.msg)

\* C7 as stated: whenever the content is a string that is not valid JSON,
\* analyze_article returns success=false with the parse error in error, and
\* tokens_used and cost_usd keep the values of the usage metadata
C7_AsStated ==
    (Responded /\ Content.t = "str" /\ ~env.create.response.loads.ok) =>
        /\ out.returned
        /\ ParseFailure(out.value, env.create.response.loads.exc)
        /\ MetricsKept(out.value, env.create.response.usage)

\* C7: a non-empty content that is not valid JSON gives success=false with
\* the parse error in error; an empty or absent content gives success=false
\* with the fixed empty-content error and no parse error; either way
\* tokens_used and cost_usd keep the values of the usage metadata
C7_MalformedKeepsMetrics ==
    (Responded /\ (Content = PyNone \/ Content = PyStr(<<>>)
                   \/ ~env.create.response.loads.ok)) =>
        /\ out.returned
        /\ out.value.success = FALSE
        /\ MetricsKept(out.value, env.create.response.usage)
        /\ IF Content = PyNone \/ Content = PyStr(<<>>)
           THEN out.value.error =
                PyStr(<<"OpenAI", "response", "content", "is", "empty.">>)
           ELSE ParseFailure(out.value, env.create.response.loads.exc)

\* C7's case: prose instead of JSON, in a response that used 1000 + 2000
\* tokens
C7_Witness ==
    /\ Responded
    /\ Content.t = "str" /\ Len(Content.s) > 1
    /\ ~env.create.response.loads.ok
    /\ env.create.response.usage # PyNone
    /\ out.returned
    /\ out.value.tokens_used.total = 3000

\* whether the content of the response was parsed as JSON
Parsed ==
    /\ Responded
    /\ Content.t = "str" /\ Content.s # <<>>
    /\ env.create.response.loads.ok

\* the value json.loads made of the content
ParsedValue == env.create.response.loads.value

\* parsed[key] where the parsed value is an object with this key, else the
\* default
FieldOr(parsed, key, default) ==
    IF parsed.t = "dict" /\ key \in DOMAIN parsed.d
    THEN parsed.d[key]
    ELSE default

\* the four analysis fields are the parsed values, or the defaults
FieldsCopied(result, parsed) ==
    /\ result.summary = FieldOr(parsed, "summary", PyStr(<<>>))
    /\ result.sentiment =
        FieldOr(parsed, "sentiment",
                PyDict([label |-> PyStr(<<>>),
                        confidence |-> PyFloat(FloatZero)]))
    /\ result.key_points = FieldOr(parsed, "key_points", PyList(<<>>))
    /\ result.reading_time_minutes =
        FieldOr(parsed, "reading_time_minutes", PyInt(0))

\* C8 as stated: whatever JSON value the content parses to, analyze_article
\* returns success=true with the four fields equal to the parsed values or
\* to the defaults
C8_AsStated ==
    Parsed =>
        /\ out.returned
        /\ out.value.success = TRUE
        /\ FieldsCopied(out.value, ParsedValue)

\* C8: when the content parses to a JSON object, analyze_article returns
\* success=true with the four fields equal to the parsed values, or to the
\* defaults for the missing keys; when it parses to any other JSON value,
\* analyze_article returns success=false with an 'Error during article
\* analysis' message, the four fields at their defaults and the tokens of
\* the usage metadata
C8_ObjectsAreCopied ==
    Parsed =>
        /\ out.returned
        /\ FieldsCopied(out.value, ParsedValue)
        /\ MetricsKept(out.value, env.create.response.usage)
        /\ IF ParsedValue.t = "dict"
           THEN out.value.success = TRUE /\ out.value.error = PyNone
           ELSE /\ out.value.success = FALSE
                /\ out.value.error.t = "str"
                /\ StartsWith(out.value.error.s,
                              <<"Error", "during", "article", "analysis:">>)

\* C8's case: an object with some of the four keys missing was copied
C8_Witness ==
    /\ Parsed
    /\ ParsedValue.t = "dict"
    /\ "summary" \in DOMAIN ParsedValue.d
    /\ "key_points" \notin DOMAIN ParsedValue.d
    /\ out.returned
    /\ out.value.success = TRUE

\* C9: every AnalysisResult analyze_article returns has total = prompt +
\* completion and cost_usd = calculate_cost(prompt, completion)
C9_TokensAndCostAgree ==
    (Analyzed /\ out.returned) =>
        /\ out.value.tokens_used.total =
            out.value.tokens_used.prompt + out.value.tokens_used.completion
        /\ out.value.cost_usd =
            calculate_cost(out.value.tokens_used.prompt,
                           out.value.tokens_used.completion)

\* C9's case: a failure after the tokens were counted
C9_Witness ==
    /\ Analyzed /\ out.returned
    /\ out.value.success = FALSE
    /\ out.value.tokens_used.prompt = 1000
    /\ out.value.tokens_used.completion = 2000

CostCalled == fn = "calculate_cost"

\* 150 * p + 600 * c: the cost in billionths of a dollar
Billionths(p, c) == 150 * p + 600 * c

\* the float nearest to n billionths
NearestToBillionths(n) == RoundToFloat(BigFromNat(n), Tens(9), 0)

\* C10 as stated: calculate_cost(p, c) is (150 * p + 600 * c) billionths of
\* a dollar, as a float: the float nearest to that amount
C10_AsStated ==
    CostCalled =>
        out.value = NearestToBillionths(Billionths(arg.prompt_tokens,
                                                   arg.completion_tokens))

\* | a - b | of two naturals
BigDistance(a, b) == IF BigLess(a, b) THEN BigSub(b, a) ELSE BigSub(a, b)

\* a <= b
BigAtMost(a, b) == ~BigLess(b, a)

\* | x - n / 10^9 | <= 2^-bits * n / 10^9 for the float x = m * 2^e,
\* e <= 0, with both sides multiplied by 10^9 * 2^(bits - e)
WithinRounding(x, n, bits) ==
    BigAtMost(BigDistance(BigShl(BigMul(x.m, BigFromNat(1000000000)), bits),
                          BigShl(BigFromNat(n), bits - x.e)),
              BigShl(BigFromNat(n), 0 - x.e))

\* the float one unit in the last place above x
NextUp(x) == [m |-> BigAdd(x.m, <<1>>), e |-> x.e]

\* the results for the four token counts the specification names
CostExamples(p, c, cost) ==
    /\ (p = 0 /\ c = 0) => cost = FloatZero
    /\ (p = 1000000 /\ c = 0) => cost = FloatLiteral(150, 3)
    /\ (p = 0 /\ c = 1000000) => cost = FloatLiteral(600, 3)
    /\ (p = 1000 /\ c = 2000) => NextUp(cost) = FloatLiteral(135, 5)

\* C10: calculate_cost(p, c) is p/1e6*0.150 + c/1e6*0.600 in double
\* arithmetic: within a relative error of 2^-50 of (150 * p + 600 * c)
\* billionths of a dollar; (0,0) gives 0.0, (1_000_000,0) gives 0.150 and
\* (0,1_000_000) gives 0.600 exactly, and (1000,2000) gives the double one
\* unit in the last place below 0.00135
C10_CostWithinRounding ==
    CostCalled =>
        /\ out.value.e <= 0
        /\ WithinRounding(out.value,
                          Billionths(arg.prompt_tokens,
                                     arg.completion_tokens), 50)
        /\ CostExamples(arg.prompt_tokens, arg.completion_tokens, out.value)

\* C10's case: the cost of 1000 prompt and 2000 completion tokens, which is
\* not the float nearest to 0.00135
C10_Witness ==
    /\ CostCalled
    /\ arg.prompt_tokens = 1000 /\ arg.completion_tokens = 2000
    /\ out.value # FloatLiteral(135, 5)

\* whether analyze_article returned a record with success=true
AnalysisSucceeded == Analyzed /\ out.returned /\ out.value.success = TRUE

\* a number in [0, 1]; a float is m * 2^e
InUnitInterval(v) ==
    \/ v.t = "int" /\ v.n \in {0, 1}
    \/ /\ v.t = "float"
       /\ \/ v.f.m = <<>>
          \/ v.f.e <= 0 /\ BigAtMost(v.f.m, BigShl(<<1>>, 0 - v.f.e))

\* a sentiment as the specification describes it
ValidSentiment(s) ==
    /\ s.t = "dict"
    /\ "label" \in DOMAIN s.d
    /\ s.d.label \in {PyStr(<<"positive">>), PyStr(<<"neutral">>),
                      PyStr(<<"negative">>)}
    /\ "confidence" \in DOMAIN s.d
    /\ InUnitInterval(s.d.confidence)

\* C11 as stated: every AnalysisResult with success=true has a sentiment
\* label among positive, neutral, negative and a confidence in [0, 1],
\* whatever JSON the model returned
C11_AsStated == AnalysisSucceeded => ValidSentiment(out.value.sentiment)

\* C11: every AnalysisResult with success=true has the sentiment the model's
\* JSON object holds, unchanged and unvalidated, or {label: '', confidence:
\* 0.0} when the object has none; so the label is among positive, neutral,
\* negative and the confidence in [0, 1] exactly when the model's JSON holds
\* such a sentiment
C11_SentimentIsTheModels ==
    AnalysisSucceeded =>
        /\ out.value.sentiment =
            FieldOr(ParsedValue, "sentiment",
                    PyDict([label |-> PyStr(<<>>),
                            confidence |-> PyFloat(FloatZero)]))
        /\ ValidSentiment(out.value.sentiment) <=>
            /\ "sentiment" \in DOMAIN ParsedValue.d
            /\ ValidSentiment(ParsedValue.d.sentiment)

\* C11's case: a success with the label 'mixed' and the confidence 1.5
C11_Witness ==
    /\ AnalysisSucceeded
    /\ out.value.sentiment.t = "dict"
    /\ out.value.sentiment.d.label = PyStr(<<"mixed">>)
    /\ ~InUnitInterval(out.value.sentiment.d.confidence)

\* whether one of the two text generators was called
Generated == fn \in {"generate_update", "generate_text"}

\* whether the generator got a response with a first choice
GeneratorResponded ==
    /\ Generated
    /\ fn = "generate_update" => "name" \in DOMAIN arg.weather.d
    /\ env.create.ok
    /\ env.create.response.choices # <<>>

\* the cost of the tokens a response reports
UsageCost(usage) ==
    calculate_cost(UsageCounts(usage).prompt, UsageCounts(usage).completion)

\* C12 as stated: the generator returns an UpdateResult holding the model's
\* raw text and a cost_usd computed from the response's token counts with
\* calculate_cost's formula
C12_AsStated ==
    GeneratorResponded =>
        /\ out.returned
        /\ out.value.t = "dict"
        /\ DOMAIN out.value.d = {"text", "cost_usd"}
        /\ out.value.d.text = Content
        /\ out.value.d.cost_usd = PyFloat(UsageCost(env.create.response.usage))

\* C12: the generator returns the model's raw text and nothing else: the
\* content of the response's first choice (a string, or None when the choice
\* has no content); it computes no cost and does not read the token counts
C12_GeneratorReturnsTextOnly ==
    Generated =>
        /\ out.returned <=> GeneratorResponded
        /\ out.returned =>
            /\ out.value = Content
            /\ out.value.t \in {"str", "NoneType"}

\* C12's case: a response that reports 1000 + 2000 tokens, whose text is
\* returned
C12_Witness ==
    /\ fn = "generate_update"
    /\ GeneratorResponded
    /\ env.create.response.usage # PyNone
    /\ out.returned
    /\ out.value.t = "str" /\ Len(out.value.s) > 0

\* whether a request raised a request exception (a connection failure, a
\* timeout or another one); reading an undecodable body counts when the
\* exception is a request exception
RaisedRequestException(get) ==
    \/ /\ ~get.ok
       /\ get.exc.cls \in {"ConnectionError", "Timeout", "ConnectTimeout",
                           "TooManyRedirects", "RequestException"}
    \/ /\ get.ok
       /\ get.status \in 200..299
       /\ ~get.body.ok
       /\ get.body.exc.cls = "RequestsJSONDecodeError"

\* whether one of the requests the fetcher made failed, where `bad` is the
\* set of statuses that count as a failure
FetchFailed(bad) ==
    \/ /\ fn = "get_news_headlines"
       /\ RaisedRequestException(env.get) \/ (env.get.ok /\ env.get.status \in bad)
    \/ /\ fn = "get_weather_forecast"
       /\ \/ RaisedRequestException(env.find)
          \/ env.find.ok /\ env.find.status \in bad
          \/ /\ Len(out.calls) = 2
             /\ \/ RaisedRequestException(env.point)
                \/ env.point.ok /\ env.point.status \in bad

\* the empty result of the fetcher called: [] for news, {} for weather
ReturnedEmpty ==
    /\ out.returned
    /\ out.value = IF fn = "get_news_headlines"
                   THEN PyList(<<>>) ELSE PyDict(<<>>)

ForecastAsked ==
    /\ fn = "get_weather_forecast"
    /\ \E i \in 1..Len(out.calls) : out.calls[i] = "GET point"

\* whether the place lookup succeeded: answered, no error status, a body
\* that is JSON
LookupSucceeded ==
    /\ fn = "get_weather_forecast"
    /\ env.find.ok
    /\ env.find.status \notin 400..599
    /\ env.find.body.ok

\* C14: get_weather_forecast issues the forecast request only after the
\* place lookup, only when the lookup succeeded with at least one match, and
\* for the place_id of the first match; when the lookup finds no match it
\* returns {} without the forecast request
C14_ForecastAfterLookup ==
    /\ ForecastAsked =>
        /\ out.calls = <<"GET find_places_prefix", "GET point">>
        /\ LookupSucceeded
        /\ env.find.body.value.t = "list"
        /\ Len(env.find.body.value.l) >= 1
        /\ out.place_id = env.find.body.value.l[1].d.place_id
    /\ (LookupSucceeded /\ env.find.body.value = PyList(<<>>)) =>
        /\ ReturnedEmpty
        /\ out.calls = <<"GET find_places_prefix">>

\* C14's case: a lookup with two matches, and the forecast of the first
C14_Witness ==
    /\ ForecastAsked
    /\ Len(env.find.body.value.l) = 2
    /\ env.find.body.value.l[1].d.place_id #
        env.find.body.value.l[2].d.place_id
    /\ out.returned
    /\ out.value # PyDict(<<>>)

\* whether the run of main.py called the function
Called(name) ==
    /\ fn = "main"
    /\ \E i \in 1..Len(out.steps) : out.steps[i] = name

\* whether the run's weather fetch returned {}
WeatherUnavailable ==
    /\ Called("get_weather_forecast")
    /\ get_weather_forecast(PyStr(<<"dakar,", "Senegal">>), env)
           = Returns(PyDict(<<>>), <<"GET find_places_prefix">>)

\* C15, as stated: in a run of the morning update whose weather fetch
\* returned {}, the availability check raises its ValueError and the
\* generator is not called; and the generator is called only after the
\* check
C15_AsStated ==
    /\ WeatherUnavailable =>
        /\ Called("check_data_availability")
        /\ ~out.returned
        /\ out.exc.cls = "ValueError"
        /\ ~Called("generate_text")
    /\ Called("generate_text") => Called("check_data_availability")

\* whether the chat-completion call of generate_update raised
GeneratorCallRaised ==
    /\ fn = "generate_update"
    /\ "name" \in DOMAIN arg.weather.d
    /\ ~env.create.ok

\* the exception raised inside text_to_speech's try block, if any: by the
\* speech-synthesis call, by open, or by the write
SpeechRaised ==
    IF ~env.speech.ok THEN {env.speech.exc}
    ELSE IF ~env.open.ok THEN {env.open.exc}
    ELSE IF env.speech.response # "bytes"
    THEN {Exc("TypeError", <<"a", "bytes-like", "object">>)}
    ELSE IF ~env.write.ok THEN {env.write.exc}
    ELSE {}

\* C16: an exception raised by the chat-completion call of generate_update,
\* or by the speech-synthesis call or the file write of text_to_speech,
\* reaches the caller as that exception; no value is returned
C16_FailuresPropagate ==
    /\ GeneratorCallRaised =>
        /\ ~out.returned
        /\ out.exc = env.create.exc
    /\ fn = "text_to_speech" =>
        \A e \in SpeechRaised :
            /\ ~out.returned
            /\ out.exc = e

\* C16's case: the speech synthesis succeeded and the write failed
C16_Witness ==
    /\ fn = "text_to_speech"
    /\ env.speech.ok
    /\ env.open.ok
    /\ ~env.write.ok
    /\ ~out.returned
    /\ out.file = "empty"

\* whether both of two invocations at the same time opened their output
\* file
BothWrote ==
    /\ fn \in {"save_results_to_file twice", "text_to_speech twice"}
    /\ out[1].file # "none"
    /\ out[2].file # "none"

\* C17, as stated: two invocations at the same time never write to the same
\* output path
C17_AsStated == BothWrote => out[1].path # out[2].path

\* whether the two invocations read the clock within the same second
SameSecond == env[1].now \div 1000 = env[2].now \div 1000

\* whether the two articles' titles give the same file-name stem
SameStem ==
    sanitize_filename(PyOr(arg[1].d.title, PyStr(<<"article">>)))
        = sanitize_filename(PyOr(arg[2].d.title, PyStr(<<"article">>)))

\* C17: two invocations at the same time write to the same output path
\* exactly when they read the clock within the same second and, for
\* save_results_to_file, their titles give the same file-name stem
C17_DistinctAcrossSeconds ==
    BothWrote =>
        (out[1].path = out[2].path
            <=> /\ SameSecond
                /\ fn = "save_results_to_file twice" => SameStem)

\* C17's case: two saves of articles whose titles differ and give the same
\* stem, a millisecond apart across the boundary of a second
C17_Witness ==
    /\ BothWrote
    /\ fn = "save_results_to_file twice"
    /\ arg[1] # arg[2]
    /\ SameStem
    /\ env[1].now = 999
    /\ env[2].now = 1000
    /\ out[1].path # out[2].path

\* the blocking network calls among the calls of a log
NetworkCalls(log) ==
    SelectSeq(log,
              LAMBDA c : c \in {"download", "chat.completions.create",
                                "GET find_places_prefix", "GET point",
                                "GET top-headlines", "audio.speech.create"})

\* at most three network calls, and none to an endpoint already called
BoundedWithoutRetry(calls) ==
    /\ Len(calls) <= 3
    /\ \A i, j \in 1..Len(calls) : calls[i] = calls[j] => i = j

ArticlesAnswered ==
    /\ fn = "get_news_headlines"
    /\ env.get.ok
    /\ env.get.status \in 200..299
    /\ env.get.body.ok
    /\ env.get.body.value.t = "dict"
    /\ "articles" \in DOMAIN env.get.body.value.d
    /\ \A i \in 1..Len(env.get.body.value.d.articles.l) :
            env.get.body.value.d.articles.l[i].t = "dict"

\* C19, as stated: for a 2xx response with an articles list of any length,
\* zero included, get_news_headlines returns one headline per article, in
\* order, with the article's title and description, or 'No Title' and
\* 'No Description' where the article omits them
C19_AsStated ==
    ArticlesAnswered =>
        LET articles == env.get.body.value.d.articles.l
        IN  /\ out.returned
            /\ out.value.t = "list"
            /\ Len(out.value.l) = Len(articles)
            /\ \A i \in 1..Len(articles) :
                /\ out.value.l[i].d.title =
                       IF "title" \in DOMAIN articles[i].d
                       THEN articles[i].d.title
                       ELSE PyStr(<<"No", "Title">>)
                /\ out.value.l[i].d.description =
                       IF "description" \in DOMAIN articles[i].d
                       THEN articles[i].d.description
                       ELSE PyStr(<<"No", "Description">>)

\* the places of the interactive loop
LoopPlaces ==
    {"prompt", "extract", "analyze", "present", "save", "count", "again"}

\* whether the line last typed at the URL prompt is a quit word, in any
\* letter case
QuitTyped ==
    /\ url # NotSet
    /\ \E w \in QuitWords :
        /\ Len(url.s) = Len(w)
        /\ \A i \in 1..Len(w) : LowerChar(url.s[i]) = w[i]

\* C20: a quit word in any letter case ends the loop with no extraction or
\* analysis call for it; Ctrl+C is trapped at every place of the loop and
\* leads to the summary; and the session summary is printed once when the
\* program has ended, after a quit word, an interrupt or a 'no', and not
\* before
C20_EndsWithOneSummary ==
    /\ QuitTyped => (pc \in {"summary", "done"} /\ events = <<>>)
    /\ pc \in LoopPlaces => ENABLED (Interrupt /\ pc' = "summary")
    /\ pc = "done" => summaries = 1
    /\ pc \in LoopPlaces \cup {"summary"} => summaries = 0

\* C20's case: QUIT typed in capitals after an article was analysed, and
\* the session ended with its summary
C20_Witness ==
    /\ pc = "done"
    /\ url = PyStr(<<"Q", "U", "I", "T">>)
    /\ total_articles = 1
    /\ events = <<>>
    /\ summaries = 1

\* whether a call is in the log of the URL being processed
Logged(name) == \E i \in 1..Len(events) : events[i] = name

\* C21: every file saved holds an article and an analysis with
\* success = true; and when save_results_to_file is called for a URL, it is
\* for the pair extracted and analysed for that URL, after display_results
C21_SavedPairsSucceeded ==
    /\ \A i \in 1..Len(saved) :
        /\ saved[i].article.success = TRUE
        /\ saved[i].analysis.success = TRUE
    /\ \A i \in 1..Len(events) :
        events[i] = "save_results_to_file" =>
            /\ \E j \in 1..(i - 1) : events[j] = "display_results"
            /\ \E j \in 1..(i - 1) : events[j] = "extract_article"
            /\ \E j \in 1..(i - 1) : events[j] = "analyze_article"
            /\ saved[Len(saved)] = CombinedData(article, analysis)
            /\ article.url = url

\* C21's case: a second URL whose analysis failed after a first one was
\* saved: one file, and no save logged for the second
C21_Witness ==
    /\ Len(saved) = 1
    /\ entered = 2
    /\ Logged("analyze_article")
    /\ analysis.success = FALSE
    /\ ~Logged("save_results_to_file")

\* the sum of cost_usd over the analyses of the first n saved files, added
\* as the session adds them
RECURSIVE SavedCost(_)
SavedCost(n) ==
    IF n = 0 THEN FloatZero
    ELSE FloatAdd(SavedCost(n - 1),
                  DictGet(saved[n].analysis, "cost_usd", FloatZero))

CountersCurrent ==
    pc \in {"prompt", "extract", "analyze", "present", "save", "again",
            "crashed"}

====
